---- MODULE Spec2Model ----
(***************************************************************************)
(* Model of drf_dynamic_fields.DynamicFieldsMixin.fields and of the helper *)
(* _to_snake_case (src/drf_dynamic_fields/__init__.py).                    *)
(*                                                                         *)
(* Python strings are sequences of one-character strings, so that the      *)
(* regular-expression substitutions, str.split and str.lower are computed  *)
(* character by character.  Python values that may be None or of several   *)
(* types are records tagged by a field "kind".                             *)
(***************************************************************************)
EXTENDS Integers, Sequences, FiniteSets, TLC

VARIABLES
    declared,   \* keys the serializer declares, in declaration order
    tree,       \* where the serializer sits: root / parent / parent.many
    setting,    \* settings.DRF_DYNAMIC_FIELDS['SUPPRESS_CONTEXT_WARNING']
    cached,     \* does the base serializer hand out one and the same mapping
    _fields,    \* the mapping object held by the base serializer
    pc,         \* "idle" before the first call, "returned" after a call
    context,    \* the context the last call ran with
    full,       \* the mapping super().fields handed to the last call
    result,     \* the mapping the last call returned
    warned,     \* the warnings the last call emitted
    raised,     \* the exception the last call raised, "none" if it returned
    field,      \* argument of the last _to_snake_case call
    snake       \* its return value

vars == <<declared, tree, setting, cached, _fields, pc, context, full, result,
          warned, raised, field, snake>>

-----------------------------------------------------------------------------
(* Bounds *)

MaxFields == 2      \* longest declared field list
MaxLen    == 4      \* longest name given to _to_snake_case on its own

-----------------------------------------------------------------------------
(* Characters and strings *)

Lower      == {"a", "b", "c"}
Upper      == {"A", "B"}
Digit      == {"1"}
Underscore == "_"
Comma      == ","

NameChars == Lower \cup Upper \cup Digit \cup {Underscore}

\* str.lower() on one character
LowerChar(ch) ==
    CASE ch = "A" -> "a"
      [] ch = "B" -> "b"
      [] OTHER    -> ch

\* str.lower()
RECURSIVE lower(_)
lower(s) ==
    IF s = <<>> THEN <<>> ELSE <<LowerChar(Head(s))>> \o lower(Tail(s))

\* last index of the run of lowercase letters that starts at index i
RECURSIVE LowerRunEnd(_, _)
LowerRunEnd(s, i) ==
    IF i + 1 <= Len(s) /\ s[i + 1] \in Lower THEN LowerRunEnd(s, i + 1) ELSE i

\* re.sub('(.)([A-Z][a-z]+)', r'\1_\2', s), scanning from index i:
\* leftmost match first, the lowercase run taken greedily, the scan resuming
\* after the match.
RECURSIVE SubWord(_, _)
SubWord(s, i) ==
    IF i > Len(s) THEN <<>>
    ELSE IF i + 2 <= Len(s) /\ s[i + 1] \in Upper /\ s[i + 2] \in Lower
         THEN LET e == LowerRunEnd(s, i + 2)
              IN  <<s[i], Underscore>> \o SubSeq(s, i + 1, e) \o SubWord(s, e + 1)
         ELSE <<s[i]>> \o SubWord(s, i + 1)

\* A slip the second substitution could have: digits left out of the class.
SubHumpNoDigit(s, i) ==
    LET RECURSIVE go(_)
        go(j) ==
            IF j > Len(s) THEN <<>>
            ELSE IF j + 1 <= Len(s) /\ s[j] \in Lower /\ s[j + 1] \in Upper
                 THEN <<s[j], Underscore, s[j + 1]>> \o go(j + 2)
                 ELSE <<s[j]>> \o go(j + 1)
    IN  go(i)

\* re.sub('([a-z0-9])([A-Z])', r'\1_\2', s), scanning from index i
RECURSIVE SubHump(_, _)
SubHump(s, i) ==
    IF i > Len(s) THEN <<>>
    ELSE IF i + 1 <= Len(s) /\ s[i] \in (Lower \cup Digit) /\ s[i + 1] \in Upper
         THEN <<s[i], Underscore, s[i + 1]>> \o SubHump(s, i + 2)
         ELSE <<s[i]>> \o SubHump(s, i + 1)

_to_snake_case(s) == lower(SubHump(SubWord(s, 1), 1))

\* str.split(','): the segments between commas; "" splits to [""].
RECURSIVE split(_)
split(s) ==
    IF \A i \in 1..Len(s) : s[i] # Comma THEN <<s>>
    ELSE LET i == CHOOSE j \in 1..Len(s) :
                      s[j] = Comma /\ \A k \in 1..(j - 1) : s[k] # Comma
         IN  <<SubSeq(s, 1, i - 1)>> \o split(SubSeq(s, i + 1, Len(s)))

-----------------------------------------------------------------------------
(* All strings over NameChars of length at most n *)

RECURSIVE StringsOfLen(_)
StringsOfLen(n) ==
    IF n = 0 THEN {<<>>}
    ELSE {Append(s, ch) : s \in StringsOfLen(n - 1), ch \in NameChars}

Names == UNION {StringsOfLen(n) : n \in 0..MaxLen}

-----------------------------------------------------------------------------
(* Python values *)

\* field names as Python strings
a_b  == <<"a", "_", "b">>
c    == <<"c">>
aB   == <<"a", "B">>
a1_b == <<"a", "1", "_", "b">>

\* what params.get(key, None) can give: None when the key is absent, a string,
\* or an object that has no split attribute (a list, a number)
NoneValue   == [kind |-> "None",   s |-> <<>>]
NonStrValue == [kind |-> "NonStr", s |-> <<>>]
StrValue(text) == [kind |-> "Str", s |-> text]

\* the query strings the calls are tried with:  ?fields  aB  c,aB  ,c
FieldsStrings == {<<>>, aB, <<"c", ",", "a", "B">>, <<",", "c">>}
OmitStrings   == {aB, <<",", "c">>}

FieldsValues == {NoneValue, NonStrValue} \cup {StrValue(t) : t \in FieldsStrings}
OmitValues   == {NoneValue, NonStrValue} \cup {StrValue(t) : t \in OmitStrings}

\* a request attribute: missing, or a mapping of query parameters
Missing    == [kind |-> "Missing", fields |-> NoneValue, omit |-> NoneValue]
NoneParams == [kind |-> "None",    fields |-> NoneValue, omit |-> NoneValue]
Mapping(f, o) == [kind |-> "Mapping", fields |-> f, omit |-> o]

Mappings == {Mapping(f, o) : f \in FieldsValues, o \in OmitValues}

\* the mappings a request is given under GET
GETMappings == {Mapping(StrValue(<<>>), NoneValue),
                Mapping(NoneValue, StrValue(<<",", "c">>))}

Request(q, g) == [query_params |-> q, GET |-> g]
NoRequestObject == Request(Missing, Missing)

Requests ==
    {Request(m, Missing) : m \in Mappings}
    \cup {Request(Missing, g) : g \in GETMappings}
    \cup {Request(Mapping(StrValue(aB), NoneValue), g) : g \in GETMappings}
    \cup {Request(Missing, Missing)}

\* the serializer's context: no _context attribute at all, a context without
\* a 'request' entry, or a context with one
NoContext == [kind |-> "NoContext", request |-> NoRequestObject]
NoRequest == [kind |-> "NoRequest", request |-> NoRequestObject]
WithRequest(r) == [kind |-> "Request", request |-> r]

Contexts == {NoContext, NoRequest} \cup {WithRequest(r) : r \in Requests}

\* where the serializer sits: self.root == self, self.parent == self.root,
\* and the parent's attribute many ("unset" when the parent has none)
Tree(r, p, m) == [root_is_self |-> r, parent_is_root |-> p, parent_many |-> m]

Trees == {Tree(TRUE,  FALSE, "unset"),
          Tree(FALSE, TRUE,  "True"),
          Tree(FALSE, TRUE,  "False"),
          Tree(FALSE, TRUE,  "unset"),
          Tree(FALSE, FALSE, "True")}

\* settings.DRF_DYNAMIC_FIELDS['SUPPRESS_CONTEXT_WARNING']: not set, False,
\* True, or a value that is truthy without being True (1)
Settings == {"unset", "False", "True", "1"}

\* the keys a serializer may declare; aB is a key that is not snake_case
Keys == {a_b, c, aB}

\* the sequences of at most n distinct keys
RECURSIVE DistinctSeqs(_)
DistinctSeqs(n) ==
    IF n = 0 THEN {<<>>}
    ELSE LET shorter  == DistinctSeqs(n - 1)
             extended == {Append(s, k) : s \in shorter, k \in Keys}
         IN  shorter \cup
             {t \in extended : \A i, j \in 1..Len(t) : i # j => t[i] # t[j]}

\* the mapping the base serializer builds from the declared keys: key i is
\* bound to the field object i
BuildFields(keys) == [i \in 1..Len(keys) |-> [key |-> keys[i], obj |-> i]]

KeysOf(mapping) == {mapping[i].key : i \in 1..Len(mapping)}

-----------------------------------------------------------------------------
(* Outcomes of Python expressions: a value, or an exception *)

Ok(v)      == [raised |-> "none", val |-> v]
Raise(exc) == [raised |-> exc, val |-> <<>>]

-----------------------------------------------------------------------------
(* DynamicFieldsMixin.fields, statement by statement *)

\* hasattr(self, '_context')
HasContext(ctx) == ctx.kind # "NoContext"

\* truth value of getattr(self.parent, 'many', False)
ParentMany(t) == t.parent_many = "True"

\* is_root or parent_is_list_root, with the parent's many left out
MayFilterAnyChild(t) == t.root_is_self \/ t.parent_is_root

\* is_root or parent_is_list_root
MayFilter(t) ==
    LET is_root == t.root_is_self
        parent_is_list_root == t.parent_is_root /\ ParentMany(t)
    IN  is_root \/ parent_is_list_root

\* except AttributeError: where the source has except KeyError:
ExceptAttributeError(outcome) == outcome.raised = "AttributeError"

\* except KeyError: (line 46) catches the outcome
ExceptKeyError(outcome) == outcome.raised = "KeyError"

\* self.context['request']
ContextRequest(ctx) ==
    IF ctx.kind = "Request" THEN Ok(ctx.request) ELSE Raise("KeyError")

\* conf.get('SUPPRESS_CONTEXT_WARNING', False) taken for its truth value
SuppressedIfTruthy(s) == s \in {"True", "1"}

\* conf.get('SUPPRESS_CONTEXT_WARNING', False) is True
Suppressed(s) == s = "True"

\* getattr(request, 'query_params', getattr(request, 'GET', None))
GetParams(request) ==
    IF request.query_params.kind # "Missing" THEN request.query_params
    ELSE IF request.GET.kind # "Missing" THEN request.GET
    ELSE NoneParams

\* a Python list of strings, and None where a list is expected
List(items) == [kind |-> "List", items |-> items]
NoneList    == [kind |-> "None", items |-> <<>>]

\* (params.get(key, None) or None).split(','): a blank value taken for none
GetSplitBlankAsNone(params, key) ==
    IF params.kind # "Mapping" THEN Raise("AttributeError")
    ELSE LET v == params[key]
         IN  IF v.kind # "Str" \/ v.s = <<>> THEN Raise("AttributeError")
             ELSE Ok(List(split(v.s)))

\* params.get(key, None).split(','): None has neither get nor split
GetSplit(params, key) ==
    IF params.kind # "Mapping" THEN Raise("AttributeError")
    ELSE LET v == params[key]
         IN  IF v.kind # "Str" THEN Raise("AttributeError")
             ELSE Ok(List(split(v.s)))

\* try: ... except AttributeError: with no handler for the exception
TryNothing(outcome, default) == outcome

\* try: <outcome> except AttributeError: <default>
TryAttributeError(outcome, default) ==
    IF outcome.raised = "AttributeError" THEN Ok(default) ELSE outcome

\* the conversion loop left out
ConvertNone(names) == names

\* for index, field in enumerate(names): names[index] = _to_snake_case(field)
ConvertAll(names) == [i \in 1..Len(names) |-> _to_snake_case(names[i])]

\* set(filter(None, names)): the empty string is falsy
NonEmptySet(names) == {names[i] : i \in {j \in 1..Len(names) : names[j] # <<>>}}

\* fields.pop(key, None) on an ordered mapping
pop(mapping, key) == SelectSeq(mapping, LAMBDA e : e.key # key)

\* the loop of lines 90-96 over the set existing, in any order
RECURSIVE PopLoop(_, _, _, _)
PopLoop(mapping, todo, allowed, omitted) ==
    IF todo = {} THEN mapping
    ELSE LET f  == CHOOSE x \in todo : TRUE
             m1 == IF f \notin allowed THEN pop(mapping, f) ELSE mapping
             m2 == IF f \in omitted THEN pop(m1, f) ELSE m1
         IN  PopLoop(m2, todo \ {f}, allowed, omitted)

\* lines 79-96 done by building a new mapping in the order of `fields`
FilterInQueryOrder(mapping, filter_fields, omit_fields) ==
    LET omitted == NonEmptySet(omit_fields.items)
        wanted  == IF filter_fields.kind = "None"
                   THEN [i \in 1..Len(mapping) |-> mapping[i].key]
                   ELSE filter_fields.items
        RECURSIVE build(_)
        build(i) ==
            IF i > Len(wanted) THEN <<>>
            ELSE SelectSeq(mapping,
                           LAMBDA e : e.key = wanted[i] /\ e.key \notin omitted)
                 \o build(i + 1)
    IN  build(1)

\* lines 79-96 with a name in `fields` shielded from `omit`
FilterAllowedWins(mapping, filter_fields, omit_fields) ==
    LET existing == KeysOf(mapping)
        allowed  == IF filter_fields.kind = "None" THEN existing
                    ELSE NonEmptySet(filter_fields.items)
        omitted  == IF filter_fields.kind = "None"
                    THEN NonEmptySet(omit_fields.items)
                    ELSE NonEmptySet(omit_fields.items) \ allowed
    IN  PopLoop(mapping, existing, allowed, omitted)

\* lines 79-96: drop what `fields` does not name and what `omit` names
Filter(mapping, filter_fields, omit_fields) ==
    LET existing == KeysOf(mapping)
        allowed  == IF filter_fields.kind = "None" THEN existing
                    ELSE NonEmptySet(filter_fields.items)
        omitted  == NonEmptySet(omit_fields.items)
    IN  PopLoop(mapping, existing, allowed, omitted)

ContextWarning == "Context does not have access to request."
ParamsWarning  == "Request object does not contain query paramters"

Return(mapping, warnings) ==
    [result |-> mapping, warned |-> warnings, raised |-> "none"]
Throw(exc, mapping, warnings) ==
    [result |-> mapping, warned |-> warnings, raised |-> exc]

\* The property DynamicFieldsMixin.fields: `obtained` is the mapping that
\* super().fields returned, t the serializer's place in the tree, ctx its
\* context and s the setting.  The mapping is changed in place, so result is
\* also the state `obtained` is left in.
DynamicFieldsMixin_fields(obtained, t, ctx, s) ==
    IF ~HasContext(ctx) THEN Return(obtained, {})
    ELSE IF ~MayFilter(t) THEN Return(obtained, {})
    ELSE
    LET request == ContextRequest(ctx)
    IN  IF ExceptKeyError(request)
        THEN Return(obtained, IF ~Suppressed(s) THEN {ContextWarning} ELSE {})
        ELSE IF request.raised # "none" THEN Throw(request.raised, obtained, {})
        ELSE
        LET params == GetParams(request.val)
            w      == IF params.kind = "None" THEN {ParamsWarning} ELSE {}
            ff     == TryAttributeError(GetSplit(params, "fields"), NoneList)
            of     == TryAttributeError(GetSplit(params, "omit"), List(<<>>))
        IN  IF ff.raised # "none" THEN Throw(ff.raised, obtained, w)
            ELSE IF of.raised # "none" THEN Throw(of.raised, obtained, w)
            ELSE
            LET filter_fields ==
                    IF ff.val.kind # "None" THEN List(ConvertAll(ff.val.items))
                    ELSE ff.val
                omit_fields == List(ConvertAll(of.val.items))
            IN  Return(Filter(obtained, filter_fields, omit_fields), w)

-----------------------------------------------------------------------------
(* The serializer under a sequence of calls *)

Init ==
    /\ declared \in DistinctSeqs(MaxFields)
    /\ tree \in Trees
    /\ setting \in Settings
    /\ cached \in BOOLEAN
    /\ _fields = BuildFields(declared)
    /\ pc = "idle"
    /\ context = NoContext
    /\ full = <<>>
    /\ result = <<>>
    /\ warned = {}
    /\ raised = "none"
    /\ field = <<>>
    /\ snake = <<>>

\* super(DynamicFieldsMixin, self).fields: the base serializer's own mapping
\* when it keeps one, a mapping built anew from the declared fields otherwise
SuperFields == IF cached THEN _fields ELSE BuildFields(declared)

\* one evaluation of serializer.fields under the context ctx
Fields(ctx) ==
    \E obtained \in {SuperFields} :
        \E out \in {DynamicFieldsMixin_fields(obtained, tree, ctx, setting)} :
            /\ context' = ctx
            /\ full' = obtained
            /\ result' = IF out.raised = "none" THEN out.result ELSE <<>>
            /\ warned' = out.warned
            /\ raised' = out.raised
            /\ _fields' = out.result
            /\ pc' = "returned"
            /\ UNCHANGED <<declared, tree, setting, cached, field, snake>>

Next == \E ctx \in Contexts : Fields(ctx)

Spec == Init /\ [][Next]_vars

-----------------------------------------------------------------------------
(* _to_snake_case on its own, and a call made with its argument *)

\* the fields the serializer of this specification declares
SnakeDeclared == <<a_b, c, a1_b, aB>>

InitSnake ==
    /\ declared = SnakeDeclared
    /\ tree = Tree(TRUE, FALSE, "unset")
    /\ setting = "unset"
    /\ cached = FALSE
    /\ _fields = BuildFields(declared)
    /\ pc = "idle"
    /\ context = NoContext
    /\ full = <<>>
    /\ result = <<>>
    /\ warned = {}
    /\ raised = "none"
    /\ field \in Names
    /\ snake = <<>>

SnakeCase ==
    /\ pc = "idle"
    /\ snake' = _to_snake_case(field)
    /\ pc' = "converted"
    /\ UNCHANGED <<declared, tree, setting, cached, _fields, context, full,
                   result, warned, raised, field>>

\* the requests ?fields=<field> and ?omit=<field>
SnakeContexts ==
    {WithRequest(Request(Mapping(StrValue(field), NoneValue), Missing)),
     WithRequest(Request(Mapping(NoneValue, StrValue(field)), Missing))}

FieldsWithName ==
    /\ pc = "converted"
    /\ \E ctx \in SnakeContexts : Fields(ctx)

NextSnake == SnakeCase \/ FieldsWithName

SpecSnake == InitSnake /\ [][NextSnake]_vars

-----------------------------------------------------------------------------
(* Vocabulary of the properties *)

\* Root: the serializer is the root of the tree.  ListRootChild: its parent
\* is the root and represents a collection.  Nested: anything else.
Position ==
    IF tree.root_is_self THEN "Root"
    ELSE IF tree.parent_is_root /\ tree.parent_many = "True" THEN "ListRootChild"
    ELSE "Nested"

AtRootOrListRootChild == Position \in {"Root", "ListRootChild"}

Returned == pc = "returned"

\* the query-parameter mapping of the last call's request: query_params, else GET
QueryParams ==
    IF context.request.query_params.kind = "Mapping"
    THEN context.request.query_params
    ELSE context.request.GET

\* the last call ran at Root or ListRootChild with a request that has a
\* query-parameter mapping
FilteringCall ==
    /\ Returned
    /\ AtRootOrListRootChild
    /\ context.kind = "Request"
    /\ QueryParams.kind = "Mapping"

\* the non-empty, snake_case-normalized comma-separated entries of a string
Entries(text) ==
    LET parts == split(text)
    IN  {_to_snake_case(parts[i]) : i \in 1..Len(parts)} \ {<<>>}

HasUpper(name) == \E i \in 1..Len(name) : name[i] \in Upper

\* the mapping `full` restricted to the keys in ks, order and objects kept
Restrict(ks) == SelectSeq(full, LAMBDA e : e.key \in ks)

-----------------------------------------------------------------------------
(* C1 *)

AllowedC1 ==
    IF QueryParams.fields.kind = "Str" THEN Entries(QueryParams.fields.s)
    ELSE KeysOf(full)
OmittedC1 ==
    IF QueryParams.omit.kind = "Str" THEN Entries(QueryParams.omit.s) ELSE {}

\* C1: at Root or ListRootChild, with a request that has a query-parameter
\* mapping whose `fields` and `omit` are each absent or a string, the keys
\* returned are exactly the keys of the full field set that are allowed and
\* not omitted; allowed is every key when `fields` is absent and the
\* non-empty normalized entries of `fields` otherwise; omitted is the
\* non-empty normalized entries of `omit`.  A name in both is removed, and
\* with both absent the result is the full field set.
C1_ExactFilter ==
    (/\ FilteringCall
     /\ QueryParams.fields.kind \in {"None", "Str"}
     /\ QueryParams.omit.kind \in {"None", "Str"})
    => /\ raised = "none"
       /\ KeysOf(result) = {f \in KeysOf(full) : f \in AllowedC1 /\ f \notin OmittedC1}
       /\ (QueryParams.fields.kind = "None" /\ QueryParams.omit.kind = "None")
              => result = full

\* a call with ?fields=c,aB&omit=,c on the fields a_b, c: c is named by both
\* and only a_b is returned
C1_Witness ==
    /\ FilteringCall
    /\ QueryParams.fields = StrValue(<<"c", ",", "a", "B">>)
    /\ QueryParams.omit = StrValue(<<",", "c">>)
    /\ KeysOf(full) = {a_b, c}
    /\ KeysOf(result) = {a_b}

-----------------------------------------------------------------------------
(* C2 *)

\* C2: a Nested serializer returns the full field set unchanged, whatever
\* the context and the query parameters.
C2_NestedUnfiltered ==
    (Returned /\ Position = "Nested") => (raised = "none" /\ result = full)

\* the child of a root that is no collection, called with ?fields, keeps its
\* fields
C2_Witness ==
    /\ Returned
    /\ tree = Tree(FALSE, TRUE, "False")
    /\ context.kind = "Request"
    /\ QueryParams = Mapping(StrValue(<<>>), NoneValue)
    /\ Len(full) = 2
    /\ result = full

-----------------------------------------------------------------------------
(* C3 *)

\* C3: at Root or ListRootChild, `fields` present with the empty string as
\* value leaves no field at all, whatever `omit` is; `fields` absent removes
\* nothing that `omit` does not name.
C3_BlankFieldsRemovesAll ==
    FilteringCall =>
        /\ QueryParams.fields = StrValue(<<>>)
               => (raised = "none" /\ result = <<>>)
        /\ QueryParams.fields.kind = "None"
               => (raised = "none" /\ KeysOf(full) \ KeysOf(result) \subseteq OmittedC1)

C3_Witness ==
    /\ FilteringCall
    /\ QueryParams.fields = StrValue(<<>>)
    /\ Len(full) = 2
    /\ result = <<>>

-----------------------------------------------------------------------------
(* C4 *)

NoRequestContext == context.kind \in {"NoContext", "NoRequest"}

\* C4: with no context at all, or a context without a request, the call
\* returns the full field set unchanged at every position and raises nothing.
C4_NoRequestUnfiltered ==
    (Returned /\ NoRequestContext) => (raised = "none" /\ result = full)

\* a root serializer whose context holds no request
C4_Witness ==
    /\ Returned
    /\ context.kind = "NoRequest"
    /\ Position = "Root"
    /\ Len(full) = 2
    /\ result = full

-----------------------------------------------------------------------------
(* C5 *)

\* C5: the mapping returned is the full field set restricted to the returned
\* keys: no key is added, each key keeps its field object, and the keys keep
\* their declaration order.
C5_OrderedSubMapping ==
    Returned => /\ KeysOf(result) \subseteq KeysOf(full)
                /\ result = Restrict(KeysOf(result))

\* ?fields=c,aB names the two fields in the reverse of their declaration
\* order; they are returned in declaration order
C5_Witness ==
    /\ FilteringCall
    /\ QueryParams.fields = StrValue(<<"c", ",", "a", "B">>)
    /\ full = BuildFields(<<a_b, c>>)
    /\ result = full

-----------------------------------------------------------------------------
(* C6 *)

\* C6: calls carry no state from one to the next: whatever calls came
\* before, a call returns what it would return on the complete declared
\* field set with its own context, so a field removed by an earlier call is
\* back in a later call whose parameters allow it.
C6_StatelessCalls ==
    Returned =>
        /\ full = BuildFields(declared)
        /\ result = DynamicFieldsMixin_fields(BuildFields(declared), tree,
                                              context, setting).result

-----------------------------------------------------------------------------
(* C7 *)

\* C7 as stated: whenever no request context is reachable the call raises
\* nothing and warns exactly when SUPPRESS_CONTEXT_WARNING is not True.
C7_WarnsWheneverNoRequest ==
    (Returned /\ NoRequestContext) =>
        /\ raised = "none"
        /\ (ContextWarning \in warned) <=> (setting # "True")

\* C7 amended: a call never raises for want of a request, and it emits the
\* missing-request warning exactly when the serializer has a context, is at
\* Root or ListRootChild, its context holds no request, and
\* SUPPRESS_CONTEXT_WARNING is not the value True.
C7_WarnsOnlyWhereFiltering ==
    Returned =>
        /\ NoRequestContext => raised = "none"
        /\ (ContextWarning \in warned)
               <=> (/\ context.kind = "NoRequest"
                    /\ AtRootOrListRootChild
                    /\ setting # "True")

\* a root serializer without a request, the setting being 1: the warning is
\* emitted
C7_Witness ==
    /\ Returned
    /\ context.kind = "NoRequest"
    /\ Position = "Root"
    /\ setting = "1"
    /\ warned = {ContextWarning}
    /\ raised = "none"

-----------------------------------------------------------------------------
(* C8 *)

NotAString(v) == v.kind \in {"None", "NonStr"}

-----------------------------------------------------------------------------
(* C9 *)

\* an underscore goes before the uppercase letter at index i > 1 exactly when
\* a lowercase letter or digit precedes it or a lowercase letter follows it
UnderscoreBefore(name, i) ==
    /\ i > 1
    /\ name[i] \in Upper
    /\ \/ name[i - 1] \in (Lower \cup Digit)
       \/ (i < Len(name) /\ name[i + 1] \in Lower)

RECURSIVE SnakeFrom(_, _)
SnakeFrom(name, i) ==
    IF i > Len(name) THEN <<>>
    ELSE (IF UnderscoreBefore(name, i) THEN <<Underscore>> ELSE <<>>)
         \o <<LowerChar(name[i])>> \o SnakeFrom(name, i + 1)

\* C9: _to_snake_case lower-cases its argument and puts an underscore before
\* an uppercase letter at a position after the first exactly when the
\* character before is a lowercase letter or digit or the character after is
\* a lowercase letter; the output has no uppercase letter; a name without
\* uppercase letters comes back unchanged; and the entry of `fields` or
\* `omit` is matched after conversion.
C9_SnakeCase ==
    /\ pc \in {"converted", "returned"}
           => /\ snake = SnakeFrom(field, 1)
              /\ ~HasUpper(snake)
              /\ ~HasUpper(field) => snake = field
    /\ pc = "returned"
           => /\ raised = "none"
              /\ QueryParams.fields = StrValue(field)
                     => KeysOf(result) = KeysOf(full) \cap {SnakeFrom(field, 1)}
              /\ QueryParams.omit = StrValue(field)
                     => KeysOf(result) = KeysOf(full) \ {SnakeFrom(field, 1)}

\* ?fields=aB selects the field a_b
C9_Witness ==
    /\ pc = "returned"
    /\ field = aB
    /\ snake = a_b
    /\ QueryParams.fields = StrValue(aB)
    /\ KeysOf(result) = {a_b}

-----------------------------------------------------------------------------
(* C10 *)

\* C10: the serializer's own keys are not normalized: at Root or
\* ListRootChild with a request, a key that has an uppercase letter is gone
\* from every result of a call whose `fields` is a string, and is kept,
\* whatever `omit` is, by a call that has no `fields`.
C10_KeysNotNormalized ==
    FilteringCall =>
        \A k \in {f \in KeysOf(full) : HasUpper(f)} :
            /\ QueryParams.fields.kind = "Str" => k \notin KeysOf(result)
            /\ QueryParams.fields.kind = "None" => k \in KeysOf(result)

\* ?fields=aB does not select the field whose key is aB
C10_Witness ==
    /\ FilteringCall
    /\ QueryParams.fields = StrValue(aB)
    /\ aB \in KeysOf(full)
    /\ aB \notin KeysOf(result)

====
